---- MODULE Spec2Model ----
(***************************************************************************)
(* Model of the server-certificate request pipeline of                     *)
(* edgelet-http-workload (ServerCertHandler::handle).                      *)
(*                                                                         *)
(* Each request is a task: handle() matches the routing captures and       *)
(* either answers at once (BadParam) or returns a future that waits for    *)
(* the body (concat2).  When the body is delivered the map closure runs    *)
(* synchronously: parse, validate expiration, range check, common name,    *)
(* build properties, refresh_cert, and maps any error to a response.       *)
(*                                                                         *)
(* Strings that the code inspects character by character (commonName,      *)
(* expiration) are sequences of one-character strings.  A timestamp is     *)
(* written as one decimal digit: the second it denotes.                    *)
(*                                                                         *)
(* The second part models LoggingService of edgelet-http: a stack of        *)
(* decorators around a handler.  call() captures the request line, the     *)
(* user agent and the pid and returns a ResponseFuture; each poll of it    *)
(* polls the wrapped future and, when that is ready with a response, logs  *)
(* one line and hands the response on.                                     *)
(***************************************************************************)
EXTENDS Integers, Sequences, FiniteSets, TLC

\* ------------------------------------------------------------------ bounds
\* The clock runs from 0 to MaxNow.
MaxNow == 1
\* The configured maximum duration is one of 1..MaxPolicy.
MaxPolicy == 2

\* A stack of LoggingService decorators is at most MaxDepth deep.
MaxDepth == 2
\* A ResponseFuture is polled at most MaxPolls times while its wrapped future
\* is not ready.
MaxPolls == 2

\* The request tasks of one handler, and those served under Spec.
Reqs == {1, 2}
Serial == {1}

\* The calls of one decorated service, and those made under SpecLog.
Calls == {1, 2}
LogSerial == {1}

\* The instances new_service is asked for, one per connection.
Instances == {1, 2}

VARIABLES
    max_duration,   \* cfg.get_cert_max_duration(CertificateType::Server)
    now,            \* the wall clock, Utc::now()
    pc,             \* pc[r]: "idle", "concat2" (future waits for the body), "done"
    params,         \* params[r]: the routing captures handle() was given
    body,           \* body[r]: the bytes concat2 delivered
    body_read,      \* body_read[r]: the body stream was consumed
    seen_now,       \* seen_now[r]: the clock value the closure ran at
    stages,         \* stages[r]: the stages of the closure that ran, in order
    store_calls,    \* store_calls[r]: the properties handed to create_certificate
    store_result,   \* store_result[r]: what create_certificate returned
    response,       \* response[r]: the response the future resolved to
    stack,          \* the labels of the LoggingService stack, outermost first
    lpc,            \* lpc[c]: "idle", "pending" (ResponseFuture not ready), "done"
    lreq,           \* lreq[c]: the request call() was given
    captured,       \* captured[c][i]: the fields of the ResponseFuture of layer i
    polls,          \* polls[c]: how often the outermost ResponseFuture was polled
    inner_result,   \* inner_result[c]: what the last poll of the wrapped handler's future returned
    resolved,       \* resolved[c]: what the last poll of the outermost ResponseFuture returned
    log,            \* the lines written to the log, oldest first
    services,       \* services[k]: the labels of the k-th instance new_service produced
    instance        \* instance[c]: the instance call c was made on, 0 for the service itself

pipevars == <<max_duration, pc, params, body, body_read, seen_now, stages,
              store_calls, store_result, response>>
logvars == <<stack, lpc, lreq, captured, polls, inner_result, resolved, log,
             services, instance>>
vars == <<now, pipevars, logvars>>

\* ----------------------------------------------------------- option, result
None == <<>>
Some(x) == <<x>>
IsSome(o) == Len(o) = 1
Unwrap(o) == o[1]

\* ------------------------------------------------------------------ strings
Whitespace == {" "}
Digits == <<"0", "1", "2", "3", "4", "5", "6", "7", "8", "9">>

\* str::trim().is_empty()
IsBlank(s) == \A i \in 1..Len(s) : s[i] \in Whitespace

\* The digit character of second t.
DigitOf(t) == Digits[t + 1]

\* The timestamps a request may carry, up to past the longest policy.
LastTime == MaxNow + MaxPolicy + 1
Timestamps == {<<DigitOf(t)>> : t \in 0..LastTime}

\* The expiration strings of the model: empty, blank, not a timestamp, a
\* timestamp after a blank, and the timestamps.
ExpirationStrings == {<<>>, <<" ">>, <<" ", " ">>, <<"x">>, <<" ", "1">>} \cup Timestamps
CommonNames == {<<>>, <<" ">>, <<" ", " ">>, <<"m">>, <<" ", "m">>}

\* ----------------------------------------------------------------- requests
ModuleIds == {"", "a", "ab"}
GenIds == {"", "b"}
ParamSets == [name : {None} \cup {Some(n) : n \in ModuleIds},
              genid : {None} \cup {Some(g) : g \in GenIds}]
NoParams == [name |-> None, genid |-> None]

\* Body bytes: nothing, text that is no JSON, JSON of another shape, or the
\* JSON of a ServerCertificateRequest.
NoBody == [tag |-> "unread", commonName |-> <<>>, expiration |-> <<>>]
EmptyBody == [tag |-> "empty", commonName |-> <<>>, expiration |-> <<>>]
NotJsonBody == [tag |-> "not_json", commonName |-> <<>>, expiration |-> <<>>]
OtherJsonBody == [tag |-> "other_json", commonName |-> <<>>, expiration |-> <<>>]
CertRequestBody(cn, exp) == [tag |-> "cert_request", commonName |-> cn, expiration |-> exp]
Bodies == {EmptyBody, NotJsonBody, OtherJsonBody}
          \cup {CertRequestBody(cn, exp) : cn \in CommonNames, exp \in ExpirationStrings}

\* ------------------------------------------------------------------- errors
Ok(v) == [ok |-> TRUE, val |-> v]
Err(e) == [ok |-> FALSE, err |-> e]

BadParamMsg == "Bad parameter"
BadBodyMsg == "Bad body"
EmptyArgumentMsg == "Argument is empty or only has whitespace"
InvalidTimestampMsg == "Invalid ISO 8601 date"
IoErrorMsg == "An IO error occurred"
KeyStoreMsg == "An error occurred in the key store"
HyperMsg == "Hyper error"
OutOfRangeMsg(low, high) == "out of range [" \o ToString(low) \o ", " \o ToString(high) \o ")"

Error(kind, message) == [kind |-> kind, message |-> message]

\* The errors create_certificate may fail with.
StoreErrors == {IoErrorMsg, KeyStoreMsg}

\* ---------------------------------------------------------------- responses
NoKey == [type |-> "", bytes |-> None, ref |-> None]
NoResponse == [status |-> 0, message |-> "", certificate |-> "", privateKey |-> NoKey]

\* The status of an error: 400 for BadParam and BadBody, 500 for the rest.
StatusOf(kind) == IF kind \in {"BadParam", "BadBody"} THEN 400 ELSE 500

\* e.into_response(): the status of the kind, a body holding the message.
IntoResponse(e) ==
    [status |-> StatusOf(e.kind), message |-> e.message,
     certificate |-> "", privateKey |-> NoKey]

\* ------------------------------------------------------ validation helpers
\* ensure_not_empty!(s): the string itself, or EmptyArgument when trimming
\* it leaves nothing.
ensure_not_empty(s) ==
    IF IsBlank(s) THEN Err(Error("EmptyArgument", EmptyArgumentMsg)) ELSE Ok(s)

\* ensure_range!(val, low, high): the value itself, or OutOfRange echoing
\* the bounds.
ensure_range(val, low, high) ==
    IF val < low \/ val > high
    THEN Err(Error("OutOfRange", OutOfRangeMsg(low, high)))
    ELSE Ok(val)

\* DateTime::parse_from_rfc3339: the second a timestamp string denotes.
ParseTimestamp(s) ==
    IF Len(s) = 1 /\ \E t \in 0..9 : Digits[t + 1] = s[1]
    THEN Some(CHOOSE t \in 0..9 : Digits[t + 1] = s[1])
    ELSE None

Min(a, b) == IF a < b THEN a ELSE b

\* compute_validity(expiration, max_duration_sec) at clock value t: the
\* seconds from t to the timestamp, at most max_duration_sec.
compute_validity(expiration, max_duration_sec, t) ==
    LET parsed == ParseTimestamp(expiration) IN
    IF IsSome(parsed)
    THEN Ok(Min(Unwrap(parsed) - t, max_duration_sec))
    ELSE Err(Error("InvalidTimestamp", InvalidTimestampMsg))

\* -------------------------------------------------------------- the store
\* A certificate as the store returns it: each accessor may fail, and the
\* private key is inline bytes (Key) or a reference (Ref).
PrivateKeys == [variant : {"Key", "Ref"}, value : {"Betelgeuse"}]
AllCerts == [fail_pem : BOOLEAN, fail_private_key : BOOLEAN, fail_valid_to : BOOLEAN,
             private_key : PrivateKeys]
Certs == AllCerts

\* What create_certificate answers: a certificate or an error.
StoreOutcomes == {Ok(c) : c \in Certs} \cup {Err(Error("StoreError", m)) : m \in StoreErrors}
NoOutcome == None
AnyOutcome == CHOOSE o \in StoreOutcomes : TRUE

\* CertificateProperties::new(validity_in_secs, common_name, type, alias)
CertificateProperties(validity_in_secs, common_name, certificate_type, alias) ==
    [validity_in_secs |-> validity_in_secs, common_name |-> common_name,
     certificate_type |-> certificate_type, alias |-> alias]

\* PrivateKeyResponse with the two variants exchanged.
PrivateKeyResponse_Exchanged(k) ==
    IF k.variant = "Ref"
    THEN [type |-> "key", bytes |-> Some(k.value), ref |-> None]
    ELSE [type |-> "ref", bytes |-> None, ref |-> Some(k.value)]

\* cert_to_response: 201 with the certificate and its private key under the
\* tag of its variant, or IoError when an accessor of the certificate fails.
PrivateKeyResponse(k) ==
    IF k.variant = "Key"
    THEN [type |-> "key", bytes |-> Some(k.value), ref |-> None]
    ELSE [type |-> "ref", bytes |-> None, ref |-> Some(k.value)]

cert_to_response(cert) ==
    IF cert.fail_pem \/ cert.fail_private_key \/ cert.fail_valid_to
    THEN Err(Error("IoError", IoErrorMsg))
    ELSE Ok([status |-> 201, message |-> "", certificate |-> "pem",
             privateKey |-> PrivateKeyResponse(cert.private_key)])

\* refresh_cert(hsm, alias, props) when the store answers `outcome`.
refresh_cert(outcome) ==
    IF outcome.ok THEN cert_to_response(outcome.val) ELSE Err(outcome.err)

\* ------------------------------------------------- the stages of the closure
\* The state of the combinator chain: the result so far, with a record of
\* the stages that ran (and whether each succeeded) and of the calls made to
\* the store.
Ran(ctx, name, res) ==
    [ctx EXCEPT !.stages = Append(@, [stage |-> name, ok |-> res.ok]), !.res = res]

\* Result::and_then: the next stage runs only on a success.
AndThen(ctx, next) == IF ctx.res.ok THEN next ELSE ctx

\* from_slice with every field of the request defaulted: JSON of another
\* shape parses to a request with empty fields.
from_slice_Lenient(bytes) ==
    IF bytes.tag \in {"cert_request", "other_json"}
    THEN Ok([commonName |-> bytes.commonName, expiration |-> bytes.expiration])
    ELSE Err(Error("BadBody", BadBodyMsg))

\* serde_json::from_slice::<ServerCertificateRequest>(&body)
\*     .context(ErrorKind::BadBody)
from_slice(bytes) ==
    IF bytes.tag = "cert_request"
    THEN Ok([commonName |-> bytes.commonName, expiration |-> bytes.expiration])
    ELSE Err(Error("BadBody", BadBodyMsg))

ParseBody(bytes) ==
    Ran([stages |-> <<>>, res |-> Ok(bytes), calls |-> <<>>, created |-> NoOutcome],
        "ParseBody", from_slice(bytes))

\* ValidateExpiration without ensure_not_empty!: the expiration goes to
\* compute_validity as it is.
ValidateExpiration_NoEmptyCheck(ctx, max, t) ==
    LET cert_req == ctx.res.val
        validity == compute_validity(cert_req.expiration, max, t)
    IN  Ran(ctx, "ValidateExpiration",
            IF validity.ok
            THEN Ok([cert_req |-> cert_req, expiration |-> validity.val])
            ELSE validity)

\* ValidateExpiration with no policy maximum handed to compute_validity.
ValidateExpiration_Unclamped(ctx, max, t) ==
    LET cert_req == ctx.res.val
        arg == ensure_not_empty(cert_req.expiration)
        validity == IF arg.ok THEN compute_validity(arg.val, 9, t) ELSE arg
    IN  Ran(ctx, "ValidateExpiration",
            IF validity.ok
            THEN Ok([cert_req |-> cert_req, expiration |-> validity.val])
            ELSE validity)

\* compute_validity(ensure_not_empty!(cert_req.expiration()).as_str(), max_duration)
\*     .map(|expiration| (cert_req, expiration))
ValidateExpiration(ctx, max, t) ==
    LET cert_req == ctx.res.val
        arg == ensure_not_empty(cert_req.expiration)
        validity == IF arg.ok THEN compute_validity(arg.val, max, t) ELSE arg
    IN  Ran(ctx, "ValidateExpiration",
            IF validity.ok
            THEN Ok([cert_req |-> cert_req, expiration |-> validity.val])
            ELSE validity)

\* EnsureRange without ensure_range!: the expiration is cast as it is.
EnsureRange_Unchecked(ctx, max) ==
    Ran(ctx, "EnsureRange",
        Ok([cert_req |-> ctx.res.val.cert_req,
            validity_in_secs |-> ctx.res.val.expiration]))

\* EnsureRange that wants a duration of at least one second.
EnsureRange_Positive(ctx, max) ==
    LET checked == ensure_range(ctx.res.val.expiration, 1, max)
    IN  Ran(ctx, "EnsureRange",
            IF checked.ok
            THEN Ok([cert_req |-> ctx.res.val.cert_req, validity_in_secs |-> checked.val])
            ELSE checked)

\* ensure_range!(expiration, 0, max_duration) as u64
EnsureRange(ctx, max) ==
    LET checked == ensure_range(ctx.res.val.expiration, 0, max)
    IN  Ran(ctx, "EnsureRange",
            IF checked.ok
            THEN Ok([cert_req |-> ctx.res.val.cert_req, validity_in_secs |-> checked.val])
            ELSE checked)

\* ValidateCommonName without ensure_not_empty!.
ValidateCommonName_Unchecked(ctx) ==
    Ran(ctx, "ValidateCommonName",
        Ok([common_name |-> ctx.res.val.cert_req.commonName,
            validity_in_secs |-> ctx.res.val.validity_in_secs]))

\* ensure_not_empty!(cert_req.common_name().to_string())
ValidateCommonName(ctx) ==
    LET checked == ensure_not_empty(ctx.res.val.cert_req.commonName)
    IN  Ran(ctx, "ValidateCommonName",
            IF checked.ok
            THEN Ok([common_name |-> checked.val,
                     validity_in_secs |-> ctx.res.val.validity_in_secs])
            ELSE checked)

\* RefreshCert that calls the store again when it failed.
RefreshCert_Retry(ctx, alias, outcome) ==
    LET props == CertificateProperties(ctx.res.val.validity_in_secs,
                                       ctx.res.val.common_name, "Server", alias)
        call == [alias |-> alias, props |-> props]
    IN  [Ran(ctx, "RefreshCert", refresh_cert(outcome)) EXCEPT
            !.calls = IF outcome.ok THEN Append(@, call) ELSE @ \o <<call, call>>,
            !.created = Some(outcome)]

\* let props = CertificateProperties::new(.., .., CertificateType::Server, alias.clone());
\* refresh_cert(&hsm, alias, &props)
RefreshCert(ctx, alias, outcome) ==
    LET props == CertificateProperties(ctx.res.val.validity_in_secs,
                                       ctx.res.val.common_name, "Server", alias)
    IN  [Ran(ctx, "RefreshCert", refresh_cert(outcome)) EXCEPT
            !.calls = Append(@, [alias |-> alias, props |-> props]),
            !.created = Some(outcome)]

\* Validated with the common name checked before the range.
Validated_NameFirst(bytes, max, t) ==
    LET parsed == ParseBody(bytes)
        valid == AndThen(parsed, ValidateExpiration(parsed, max, t))
        named == AndThen(valid,
                     LET checked == ensure_not_empty(valid.res.val.cert_req.commonName)
                     IN  Ran(valid, "ValidateCommonName",
                             IF checked.ok THEN valid.res ELSE checked))
        ranged == AndThen(named, EnsureRange(named, max))
    IN  AndThen(ranged,
            [ranged EXCEPT !.res = Ok([common_name |-> ranged.res.val.cert_req.commonName,
                                       validity_in_secs |-> ranged.res.val.validity_in_secs])])

\* Validated with the common name checked right after the body is parsed.
Validated_NameSecond(bytes, max, t) ==
    LET parsed == ParseBody(bytes)
        named == AndThen(parsed,
                     LET checked == ensure_not_empty(parsed.res.val.commonName)
                     IN  Ran(parsed, "ValidateCommonName",
                             IF checked.ok THEN parsed.res ELSE checked))
        valid == AndThen(named, ValidateExpiration(named, max, t))
        ranged == AndThen(valid, EnsureRange(valid, max))
    IN  AndThen(ranged,
            [ranged EXCEPT !.res = Ok([common_name |-> ranged.res.val.cert_req.commonName,
                                       validity_in_secs |-> ranged.res.val.validity_in_secs])])

\* The closure given to map(), up to the call of refresh_cert: the chain of
\* and_then over the parsed body.
Validated(bytes, max, t) ==
    LET parsed == ParseBody(bytes)
        valid == AndThen(parsed, ValidateExpiration(parsed, max, t))
        ranged == AndThen(valid, EnsureRange(valid, max))
    IN  AndThen(ranged, ValidateCommonName(ranged))

\* Closure with the store called before the validation is looked at.
Closure_Eager(bytes, alias, max, t, outcome) ==
    LET named == Validated(bytes, max, t)
        props == CertificateProperties(0, <<>>, "Server", alias)
    IN  IF named.res.ok
        THEN RefreshCert(named, alias, outcome)
        ELSE [named EXCEPT !.calls = Append(@, [alias |-> alias, props |-> props]),
                           !.created = Some(outcome)]

\* The whole closure, the store answering `outcome` when it is called.
Closure(bytes, alias, max, t, outcome) ==
    LET named == Validated(bytes, max, t)
    IN  AndThen(named, RefreshCert(named, alias, outcome))

\* UnwrapOrElse with the BadBody context put on the whole chain: every error
\* of the closure is reported as a bad body.
UnwrapOrElse_ContextBadBody(ctx) ==
    IF ctx.res.ok THEN ctx.res.val ELSE IntoResponse(Error("BadBody", BadBodyMsg))

\* .unwrap_or_else(|e| e.into_response())
UnwrapOrElse(ctx) == IF ctx.res.ok THEN ctx.res.val ELSE IntoResponse(ctx.res.err)

\* Alias with the two identifiers in the other order.
Alias_Swapped(module_id, genid) == genid \o module_id \o "server"

\* format!("{}{}server", module_id, genid)
Alias(module_id, genid) == module_id \o genid \o "server"

\* (Some(module_id), Some(genid)) => ..
BothCaptured(p) == IsSome(p.name) /\ IsSome(p.genid)

\* The missing capture reported as a bad body.
BadParamResponse_BadBody == IntoResponse(Error("BadBody", BadBodyMsg))

\* The missing capture reported as an internal error.
BadParamResponse_Internal == IntoResponse(Error("IoError", BadParamMsg))

\* Error::from(ErrorKind::BadParam).into_response()
BadParamResponse == IntoResponse(Error("BadParam", BadParamMsg))

\* .map_err(Error::from).or_else(|e| future::ok(e.into_response()))
TransportErrorResponse == IntoResponse(Error("Hyper", HyperMsg))

\* The error of the body handed on as the error of the future.
TransportOutcome_Propagated == [pc |-> "failed", response |-> NoResponse]

\* How the future resolves when concat2 fails: or_else answers future::ok
\* with the response of the error.
TransportOutcome == [pc |-> "done", response |-> TransportErrorResponse]

\* ------------------------------------------------------- LoggingService
\* The labels a LoggingService is constructed with.
Labels == {"mgmt", "work"}

\* A header of a message: absent, present with bytes that are not visible
\* ASCII, or present with a text.
AbsentHeader == [present |-> FALSE, readable |-> FALSE, text |-> ""]
OpaqueHeader == [present |-> TRUE, readable |-> FALSE, text |-> ""]
TextHeader(t) == [present |-> TRUE, readable |-> TRUE, text |-> t]

\* headers().get(NAME).and_then(|v| v.to_str().ok()): the text of a header
\* that is present and readable.
HeaderText(h) == IF h.present /\ h.readable THEN Some(h.text) ELSE None

\* Option::unwrap_or_else(|| "-").
OrDash_Empty(opt) == IF IsSome(opt) THEN Unwrap(opt) ELSE ""

OrDash(opt) == IF IsSome(opt) THEN Unwrap(opt) ELSE "-"

\* The requests call() is given: the Pid extension is attached or not.
Pids == {42}
HttpRequests ==
    [method : {"GET"}, path : {"/modules"}, query : {None, Some("v=1")},
     version : {"HTTP/1.1"},
     user_agent : {AbsentHeader, OpaqueHeader, TextHeader("curl")},
     pid : {None} \cup {Some(p) : p \in Pids}]
NoHttpRequest ==
    [method |-> "", path |-> "", query |-> None, version |-> "",
     user_agent |-> AbsentHeader, pid |-> None]

\* The responses of the wrapped handler.
HttpResponses ==
    [status : {200, 404},
     content_length : {AbsentHeader, OpaqueHeader, TextHeader("11")},
     body : {"hello world"}]
NoHttpResponse == [status |-> 0, content_length |-> AbsentHeader, body |-> ""]

\* The errors the future of the wrapped handler can resolve to.
HandlerErrors == {"connection reset"}

\* What a poll returns: Ok(Async::NotReady), Ok(Async::Ready(response)) or
\* Err(error).
NotReady == [tag |-> "NotReady", response |-> NoHttpResponse, error |-> ""]
Ready(resp) == [tag |-> "Ready", response |-> resp, error |-> ""]
Failed(e) == [tag |-> "Err", response |-> NoHttpResponse, error |-> e]
PollResults == {NotReady} \cup {Ready(resp) : resp \in HttpResponses}
                  \cup {Failed(e) : e \in HandlerErrors}

\* The request line of call(): method, the path with "?query" when there is
\* a query, and the version.
RequestLine(req) ==
    LET uri == IF IsSome(req.query) THEN req.path \o "?" \o Unwrap(req.query)
               ELSE req.path
    IN  req.method \o " " \o uri \o " " \o req.version

\* The fields call() stores in the ResponseFuture of one decorator.
Capture(label, req) ==
    [label |-> label,
     request |-> RequestLine(req),
     user_agent |-> OrDash(HeaderText(req.user_agent)),
     pid |-> req.pid]

\* pid.map_or_else(|| "-", |p| p.to_string()).
PidText(pid) == IF IsSome(pid) THEN ToString(Unwrap(pid)) ELSE "-"

\* The line info! writes for a response at time t.
LogLine(cap, resp, t) ==
    [label |-> cap.label,
     timestamp |-> t,
     request |-> cap.request,
     status |-> resp.status,
     body_length |-> OrDash(HeaderText(resp.content_length)),
     user_agent |-> cap.user_agent,
     pid |-> PidText(cap.pid)]

\* A decorator that cannot read the content length fails the request.
PollResponseFuture_FailsOnOpaque(cap, inner, t) ==
    IF inner.res.tag = "Ready"
    THEN IF inner.res.response.content_length = OpaqueHeader
         THEN [res |-> Failed("header"), lines |-> inner.lines]
         ELSE [res |-> inner.res,
               lines |-> Append(inner.lines, LogLine(cap, inner.res.response, t))]
    ELSE inner

\* A decorator that logs each poll, with the status of no response while
\* the wrapped future is not ready.
PollResponseFuture_LogEachPoll(cap, inner, t) ==
    IF inner.res.tag = "Err"
    THEN inner
    ELSE [res |-> inner.res,
          lines |-> Append(inner.lines, LogLine(cap, inner.res.response, t))]

\* A decorator that writes its line before it polls the wrapped future.
PollResponseFuture_LogFirst(cap, inner, t) ==
    IF inner.res.tag = "Ready"
    THEN [res |-> inner.res,
          lines |-> <<LogLine(cap, inner.res.response, t)>> \o inner.lines]
    ELSE inner

\* ResponseFuture::poll of one decorator, given what the poll of its wrapped
\* future returned and logged: try_ready! hands NotReady and Err on as they
\* are; a response is logged and handed on.
PollResponseFuture(cap, inner, t) ==
    IF inner.res.tag = "Ready"
    THEN [res |-> inner.res,
          lines |-> Append(inner.lines, LogLine(cap, inner.res.response, t))]
    ELSE inner

\* The poll of layer i of a stack: layer i + 1 is its wrapped future, and
\* below the last layer the handler's future returns `polled`.
RECURSIVE PollFrom(_, _, _, _)
PollFrom(i, caps, polled, t) ==
    IF i > Len(caps)
    THEN [res |-> polled, lines |-> <<>>]
    ELSE PollResponseFuture(caps[i], PollFrom(i + 1, caps, polled, t), t)

\* ------------------------------------------------------------------ actions
Init ==
    /\ max_duration \in 1..MaxPolicy
    /\ now = 0
    /\ pc = [r \in Reqs |-> "idle"]
    /\ params = [r \in Reqs |-> NoParams]
    /\ body = [r \in Reqs |-> NoBody]
    /\ body_read = [r \in Reqs |-> FALSE]
    /\ seen_now = [r \in Reqs |-> 0]
    /\ stages = [r \in Reqs |-> <<>>]
    /\ store_calls = [r \in Reqs |-> <<>>]
    /\ store_result = [r \in Reqs |-> NoOutcome]
    /\ response = [r \in Reqs |-> NoResponse]
    /\ stack = <<>>
    /\ lpc = [c \in Calls |-> "idle"]
    /\ lreq = [c \in Calls |-> NoHttpRequest]
    /\ captured = [c \in Calls |-> <<>>]
    /\ polls = [c \in Calls |-> 0]
    /\ inner_result = [c \in Calls |-> NotReady]
    /\ resolved = [c \in Calls |-> NotReady]
    /\ log = <<>>
    /\ services = <<>>
    /\ instance = [c \in Calls |-> 0]

\* The clock advances.
Tick ==
    /\ now < MaxNow
    /\ now' = now + 1
    /\ UNCHANGED <<pipevars, logvars>>

\* handle(req, params): requests are numbered as they arrive.  With both
\* captures the future that waits for the body is returned; with one missing
\* the future is ready with the BadParam response and the request is dropped.
Handle(r, p) ==
    /\ pc[r] = "idle"
    /\ \A q \in Reqs : q < r => pc[q] # "idle"
    /\ params' = [params EXCEPT ![r] = p]
    /\ IF BothCaptured(p)
       THEN /\ pc' = [pc EXCEPT ![r] = "concat2"]
            /\ UNCHANGED response
       ELSE /\ pc' = [pc EXCEPT ![r] = "done"]
            /\ response' = [response EXCEPT ![r] = BadParamResponse]
    /\ UNCHANGED <<max_duration, now, body, body_read, seen_now, stages,
                   store_calls, store_result, logvars>>

\* Captures kept in the handler: every closure sees the captures of the
\* latest request that had both.
Captures_Latest(r) ==
    LET taken == {q \in Reqs : pc[q] # "idle" /\ BothCaptured(params[q]) /\ q >= r}
    IN  params[CHOOSE q \in taken : \A q2 \in taken : q2 <= q]

\* The captures the closure of request r owns: module_id and genid are
\* bound by the match and moved into its closure.
Captures(r) == params[r]

\* concat2 resolves with the bytes of the body: the closure runs on them to
\* the end, and the future resolves to its response.
BodyDelivered(r, bytes, outcome) ==
    /\ pc[r] = "concat2"
    /\ body' = [body EXCEPT ![r] = bytes]
    /\ Validated(bytes, max_duration, now).res.ok \/ outcome = AnyOutcome
    /\ LET alias == Alias(Unwrap(Captures(r).name), Unwrap(Captures(r).genid))
           ctx == Closure(bytes, alias, max_duration, now, outcome)
       IN  /\ stages' = [stages EXCEPT ![r] = ctx.stages]
           /\ store_calls' = [store_calls EXCEPT ![r] = ctx.calls]
           /\ store_result' = [store_result EXCEPT ![r] = ctx.created]
           /\ response' = [response EXCEPT ![r] = UnwrapOrElse(ctx)]
    /\ body_read' = [body_read EXCEPT ![r] = TRUE]
    /\ seen_now' = [seen_now EXCEPT ![r] = now]
    /\ pc' = [pc EXCEPT ![r] = "done"]
    /\ UNCHANGED <<max_duration, now, params, logvars>>

\* concat2 fails with a transport error: the closure never runs and the
\* error is turned into a response.
BodyFailed(r) ==
    /\ pc[r] = "concat2"
    /\ response' = [response EXCEPT ![r] = TransportOutcome.response]
    /\ pc' = [pc EXCEPT ![r] = TransportOutcome.pc]
    /\ UNCHANGED <<max_duration, now, params, body, body_read, seen_now, stages,
                   store_calls, store_result, logvars>>

Next ==
    \/ Tick
    \/ \E r \in Serial, p \in ParamSets : Handle(r, p)
    \/ \E r \in Serial, bytes \in Bodies, outcome \in StoreOutcomes :
          BodyDelivered(r, bytes, outcome)
    \/ \E r \in Serial : BodyFailed(r)

Spec == Init /\ [][Next]_vars

\* concat2 resolves: the transport delivers the body or fails.
Concat2Resolves(r) ==
    \/ BodyFailed(r)
    \/ \E bytes \in Bodies, outcome \in StoreOutcomes : BodyDelivered(r, bytes, outcome)

\* Spec with a transport that does not leave a body pending for ever.
SpecFair == Spec /\ \A r \in Serial : WF_vars(Concat2Resolves(r))

\* Several requests in flight on one handler: the captures, bodies and
\* store answers they are run with.
ParParams ==
    {[name |-> Some("a"), genid |-> Some("b")],
     [name |-> Some("ab"), genid |-> Some("")],
     [name |-> Some("a"), genid |-> Some("")],
     [name |-> None, genid |-> Some("b")]}
ParBodies ==
    {NotJsonBody,
     CertRequestBody(<<"m">>, <<"1">>),
     CertRequestBody(<<" ", "m">>, <<"2">>),
     CertRequestBody(<<>>, <<"1">>)}
ParOutcomes ==
    {AnyOutcome,
     Ok([fail_pem |-> FALSE, fail_private_key |-> FALSE, fail_valid_to |-> FALSE,
         private_key |-> [variant |-> "Key", value |-> "Betelgeuse"]]),
     Err(Error("StoreError", KeyStoreMsg))}

NextPar ==
    \/ Tick
    \/ \E r \in Reqs, p \in ParParams : Handle(r, p)
    \/ \E r \in Reqs, bytes \in ParBodies, outcome \in ParOutcomes :
          BodyDelivered(r, bytes, outcome)
    \/ \E r \in Reqs : BodyFailed(r)

\* The handler with requests in flight at once, their bodies arriving in
\* any order.
SpecPar == Init /\ [][NextPar]_vars

\* LoggingService::new(label, inner): one more decorator around the service,
\* before the service takes calls.
Wrap(label) ==
    /\ Len(stack) < MaxDepth
    /\ \A c \in Calls : lpc[c] = "idle"
    /\ services = <<>>
    /\ stack' = <<label>> \o stack
    /\ UNCHANGED <<now, pipevars, lpc, lreq, captured, polls, inner_result,
                   resolved, log, services, instance>>

\* call(req) on the outermost decorator: each layer captures its fields and
\* calls the layer it wraps; nothing is logged.  Calls are numbered as they
\* are made.
Call(c, req) ==
    /\ stack # <<>>
    /\ lpc[c] = "idle"
    /\ \A d \in Calls : d < c => lpc[d] # "idle"
    /\ lreq' = [lreq EXCEPT ![c] = req]
    /\ captured' = [captured EXCEPT
                      ![c] = [i \in 1..Len(stack) |-> Capture(stack[i], req)]]
    /\ lpc' = [lpc EXCEPT ![c] = "pending"]
    /\ UNCHANGED <<now, pipevars, stack, polls, inner_result, resolved, log,
                   services, instance>>

\* #[derive(Clone)] of LoggingService: the label and the inner service are
\* cloned, layer by layer.
Clone(service) == [i \in 1..Len(service) |-> service[i]]

\* new_service(): future::ok(self.clone()), one instance per connection.
NewService ==
    /\ stack # <<>>
    /\ Len(services) < Cardinality(Instances)
    /\ services' = Append(services, Clone(stack))
    /\ UNCHANGED <<now, pipevars, stack, lpc, lreq, captured, polls, inner_result,
                   resolved, log, instance>>

\* call(req) on instance k while other calls may be in flight.
CallOn(c, k, req) ==
    /\ lpc[c] = "idle"
    /\ \A d \in Calls : d < c => lpc[d] # "idle"
    /\ lreq' = [lreq EXCEPT ![c] = req]
    /\ captured' = [captured EXCEPT
                      ![c] = [i \in 1..Len(services[k]) |-> Capture(services[k][i], req)]]
    /\ instance' = [instance EXCEPT ![c] = k]
    /\ lpc' = [lpc EXCEPT ![c] = "pending"]
    /\ UNCHANGED <<now, pipevars, stack, polls, inner_result, resolved, log, services>>

\* The fields of the future kept in the service: a poll sees those of the
\* latest call.
FutureOf_Latest(c) ==
    LET made == {d \in Calls : lpc[d] # "idle" /\ d >= c}
    IN  captured[CHOOSE d \in made : \A d2 \in made : d2 <= d]

\* The ResponseFuture call c returned: it owns label, request, user_agent
\* and pid.
FutureOf(c) == captured[c]

\* The lines of one poll, each with the call it belongs to.
Tagged(c, lines) == [i \in 1..Len(lines) |-> [call |-> c, line |-> lines[i]]]

\* One poll of the outermost ResponseFuture of call c, in which the future
\* of the handler returns `polled`.
Poll(c, polled) ==
    /\ lpc[c] = "pending"
    /\ polled = NotReady => polls[c] < MaxPolls
    /\ LET out == PollFrom(1, FutureOf(c), polled, now)
       IN  /\ log' = log \o Tagged(c, out.lines)
           /\ resolved' = [resolved EXCEPT ![c] = out.res]
           /\ lpc' = [lpc EXCEPT ![c] = IF out.res.tag = "NotReady"
                                        THEN "pending" ELSE "done"]
    /\ inner_result' = [inner_result EXCEPT ![c] = polled]
    /\ polls' = [polls EXCEPT ![c] = @ + 1]
    /\ UNCHANGED <<now, pipevars, stack, lreq, captured, services, instance>>

NextLog ==
    \/ Tick
    \/ \E label \in Labels : Wrap(label)
    \/ \E c \in LogSerial, req \in HttpRequests : Call(c, req)
    \/ \E c \in LogSerial, polled \in PollResults : Poll(c, polled)

SpecLog == Init /\ [][NextLog]_vars

\* Calls in flight at once on the instances of new_service: the requests
\* they carry and what the handler's futures return.
ParRequests ==
    {[method |-> "GET", path |-> "/modules", query |-> None, version |-> "HTTP/1.1",
      user_agent |-> TextHeader("curl"), pid |-> Some(42)],
     [method |-> "GET", path |-> "/modules", query |-> Some("v=1"), version |-> "HTTP/1.1",
      user_agent |-> AbsentHeader, pid |-> None]}
ParPollResults ==
    {NotReady,
     Ready([status |-> 200, content_length |-> TextHeader("11"), body |-> "hello world"]),
     Ready([status |-> 404, content_length |-> AbsentHeader, body |-> "hello world"]),
     Failed("connection reset")}

NextLogPar ==
    \/ \E label \in Labels : Wrap(label)
    \/ NewService
    \/ \E c \in Calls, k \in DOMAIN services, req \in ParRequests : CallOn(c, k, req)
    \/ \E c \in Calls, polled \in ParPollResults : Poll(c, polled)

SpecLogPar == Init /\ [][NextLogPar]_vars

\* ------------------------------------------------------------ properties
Done(r) == pc[r] = "done"
Handled(r) == pc[r] # "idle"
StoreInvoked(r) == store_calls[r] # <<>>
IsCertRequest(r) == body[r].tag = "cert_request"

\* The order of the stages of the closure.
PipelineOrder == <<"ParseBody", "ValidateExpiration", "EnsureRange",
                   "ValidateCommonName", "RefreshCert">>

\* C1: a request whose `name` or `genid` capture is missing is answered 400
\* "Bad parameter" at once; its body is never read, no stage runs and the
\* store is never invoked.
C1_MissingCaptureIsBadParam ==
    \A r \in Reqs :
        Handled(r) /\ ~BothCaptured(params[r]) =>
            /\ Done(r)
            /\ response[r].status = 400
            /\ response[r].message = BadParamMsg
            /\ ~body_read[r]
            /\ body[r] = NoBody
            /\ stages[r] = <<>>
            /\ ~StoreInvoked(r)
            /\ store_result[r] = NoOutcome

C1_Witness ==
    \E r \in Reqs :
        /\ Done(r)
        /\ params[r].name = None
        /\ IsSome(params[r].genid)
        /\ response[r].status = 400

\* C2: the stages run in the fixed order, each one only after all earlier
\* ones succeeded: a failed stage is the last one that ran, and the store is
\* invoked only after parsing, expiration validation, the range check and
\* common-name validation all succeeded, in the RefreshCert stage.
C2_ShortCircuit ==
    \A r \in Reqs :
        /\ Len(stages[r]) <= Len(PipelineOrder)
        /\ \A i \in 1..Len(stages[r]) :
              /\ stages[r][i].stage = PipelineOrder[i]
              /\ i < Len(stages[r]) => stages[r][i].ok
        /\ StoreInvoked(r) =>
              /\ Len(stages[r]) = Len(PipelineOrder)
              /\ \A i \in 1..4 : stages[r][i].ok

C2_Witness ==
    \E r \in Reqs :
        /\ Done(r)
        /\ Len(stages[r]) = 3
        /\ ~stages[r][3].ok
        /\ ~StoreInvoked(r)

\* The request parsed and its expiration is a timestamp: the raw duration
\* the closure computed, before the clamp.
HasTimestamp(r) == IsCertRequest(r) /\ IsSome(ParseTimestamp(body[r].expiration))
RawDuration(r) == Unwrap(ParseTimestamp(body[r].expiration)) - seen_now[r]
Readable(c) == ~c.fail_pem /\ ~c.fail_private_key /\ ~c.fail_valid_to

\* C3: every call of the store's create carries 0 <= validity_in_secs <=
\* max_duration, a common name that is neither empty nor blank, and the
\* certificate type Server.
C3_StorePropertiesValid ==
    \A r \in Reqs : \A i \in 1..Len(store_calls[r]) :
        LET props == store_calls[r][i].props IN
        /\ 0 <= props.validity_in_secs
        /\ props.validity_in_secs <= max_duration
        /\ ~IsBlank(props.common_name)
        /\ props.certificate_type = "Server"

C3_Witness ==
    \E r \in Reqs :
        /\ StoreInvoked(r)
        /\ store_calls[r][1].props.validity_in_secs = 0
        /\ store_calls[r][1].props.common_name = <<" ", "m">>

\* C4 as stated: a request whose expiration lies more than max_duration
\* seconds ahead, its other fields valid, reaches the store with
\* validity_in_secs = max_duration and is answered 201.
C4_Original ==
    \A r \in Reqs :
        Done(r) /\ HasTimestamp(r) /\ RawDuration(r) > max_duration
                /\ ~IsBlank(body[r].commonName) =>
            /\ Len(store_calls[r]) = 1
            /\ store_calls[r][1].props.validity_in_secs = max_duration
            /\ response[r].status = 201

\* C4 amended: such a request is not rejected by the range check; the store
\* is called once with validity_in_secs = max_duration, and the response is
\* 201 exactly when the store returns a certificate whose bytes, private key
\* and validity time are readable, and 500 from the store or from reading
\* the certificate otherwise.
C4_ClampedToMaxDuration ==
    \A r \in Reqs :
        Done(r) /\ HasTimestamp(r) /\ RawDuration(r) > max_duration
                /\ ~IsBlank(body[r].commonName) =>
            /\ Len(store_calls[r]) = 1
            /\ store_calls[r][1].props.validity_in_secs = max_duration
            /\ response[r].message # OutOfRangeMsg(0, max_duration)
            /\ IsSome(store_result[r])
            /\ LET outcome == Unwrap(store_result[r]) IN
               IF outcome.ok /\ Readable(outcome.val)
               THEN response[r].status = 201
               ELSE response[r].status = 500

C4_Witness ==
    \E r \in Reqs :
        /\ Done(r) /\ HasTimestamp(r)
        /\ RawDuration(r) > max_duration + 1
        /\ StoreInvoked(r)
        /\ store_calls[r][1].props.validity_in_secs = max_duration
        /\ response[r].status = 201

\* C5: a request whose expiration lies before the clock value the closure
\* read (computed duration < 0) is answered 500 with the message "out of
\* range [0, <max_duration>)", whatever its common name, and the store is
\* never invoked.
C5_PastExpirationOutOfRange ==
    \A r \in Reqs :
        Done(r) /\ HasTimestamp(r) /\ RawDuration(r) < 0 =>
            /\ response[r].status = 500
            /\ response[r].message = "out of range [0, " \o ToString(max_duration) \o ")"
            /\ ~StoreInvoked(r)
            /\ store_result[r] = NoOutcome

C5_Witness ==
    \E r \in Reqs :
        /\ Done(r) /\ HasTimestamp(r)
        /\ RawDuration(r) = -1
        /\ IsBlank(body[r].commonName)
        /\ response[r].status = 500

\* C6: with both captures present, a body that is empty, no JSON or JSON of
\* another shape is answered 400 "Bad body"; only the parse stage ran and the
\* store is never invoked.
C6_BadBody ==
    \A r \in Reqs :
        Done(r) /\ body[r].tag \in {"empty", "not_json", "other_json"} =>
            /\ BothCaptured(params[r])
            /\ response[r].status = 400
            /\ response[r].message = BadBodyMsg
            /\ stages[r] = <<[stage |-> "ParseBody", ok |-> FALSE]>>
            /\ ~StoreInvoked(r)

C6_Witness ==
    \E r \in Reqs :
        /\ Done(r)
        /\ body[r] = OtherJsonBody
        /\ response[r].status = 400

\* C7: for a parsed request, whatever its common name: a blank expiration is
\* answered 500 with the empty-argument message, and otherwise an expiration
\* that is no timestamp is answered 500 with the invalid-timestamp message;
\* in both cases the store is never invoked.
C7_ExpirationRejected ==
    \A r \in Reqs :
        Done(r) /\ IsCertRequest(r) =>
            /\ IsBlank(body[r].expiration) =>
                  /\ response[r].status = 500
                  /\ response[r].message = EmptyArgumentMsg
                  /\ ~StoreInvoked(r)
            /\ ~IsBlank(body[r].expiration) /\ ~HasTimestamp(r) =>
                  /\ response[r].status = 500
                  /\ response[r].message = InvalidTimestampMsg
                  /\ ~StoreInvoked(r)

C7_Witness ==
    \E r \in Reqs :
        /\ Done(r) /\ IsCertRequest(r)
        /\ body[r].expiration = <<" ", " ">>
        /\ ~IsBlank(body[r].commonName)
        /\ response[r].message = EmptyArgumentMsg

\* C8: a request with a timestamp not before the clock (duration >= 0) whose
\* common name is empty or blank is answered 500 with the empty-argument
\* message, and the store is never invoked.
C8_BlankCommonName ==
    \A r \in Reqs :
        Done(r) /\ HasTimestamp(r) /\ RawDuration(r) >= 0
                /\ IsBlank(body[r].commonName) =>
            /\ response[r].status = 500
            /\ response[r].message = EmptyArgumentMsg
            /\ ~StoreInvoked(r)

C8_Witness ==
    \E r \in Reqs :
        /\ Done(r) /\ HasTimestamp(r)
        /\ RawDuration(r) > 0
        /\ body[r].commonName = <<" ", " ">>
        /\ response[r].status = 500

\* C9: when the store returns a certificate whose bytes, private key and
\* validity time are readable, the response is 201 and its privateKey has
\* type "key" with bytes the inline key, or type "ref" with ref the
\* reference, as the store returned it; the variants are never exchanged.
C9_PrivateKeyVariantKept ==
    \A r \in Reqs :
        Done(r) /\ IsSome(store_result[r]) /\ Unwrap(store_result[r]).ok
                /\ Readable(Unwrap(store_result[r]).val) =>
            LET key == Unwrap(store_result[r]).val.private_key
                out == response[r].privateKey IN
            /\ response[r].status = 201
            /\ key.variant = "Key" =>
                  out.type = "key" /\ out.bytes = <<key.value>> /\ out.ref = <<>>
            /\ key.variant = "Ref" =>
                  out.type = "ref" /\ out.ref = <<key.value>> /\ out.bytes = <<>>

C9_Witness ==
    \E r \in Reqs :
        /\ Done(r) /\ IsSome(store_result[r]) /\ Unwrap(store_result[r]).ok
        /\ Unwrap(store_result[r]).val.private_key.variant = "Ref"
        /\ response[r].status = 201
        /\ response[r].privateKey.type = "ref"

\* C10: when the store's create fails, the response is 500 with the message
\* of the store's error, and create was called exactly once for the request;
\* no request calls create more than once.
C10_StoreFailureTerminal ==
    \A r \in Reqs :
        /\ Len(store_calls[r]) <= 1
        /\ IsSome(store_result[r]) /\ ~Unwrap(store_result[r]).ok =>
              /\ Done(r)
              /\ response[r].status = 500
              /\ response[r].message = Unwrap(store_result[r]).err.message
              /\ Len(store_calls[r]) = 1

C10_Witness ==
    \E r \in Reqs :
        /\ Done(r) /\ IsSome(store_result[r])
        /\ ~Unwrap(store_result[r]).ok
        /\ Unwrap(store_result[r]).err.message = KeyStoreMsg
        /\ response[r].message = KeyStoreMsg

\* The store returned a certificate / an error for request r.
Created(r) == IsSome(store_result[r]) /\ Unwrap(store_result[r]).ok
StoreFailed(r) == IsSome(store_result[r]) /\ ~Unwrap(store_result[r]).ok

\* C11: when the store returns a certificate of which the bytes, the private
\* key or the validity time cannot be read, the response is 500 with the
\* IO-error message, never 201 and never a 400; the four validation stages
\* all succeeded and only the last stage failed.
C11_UnreadableCertificateIsIoError ==
    \A r \in Reqs :
        Done(r) /\ Created(r) /\ ~Readable(Unwrap(store_result[r]).val) =>
            /\ response[r].status = 500
            /\ response[r].message = IoErrorMsg
            /\ response[r].privateKey = NoKey
            /\ Len(stages[r]) = 5
            /\ \A i \in 1..4 : stages[r][i].ok
            /\ ~stages[r][5].ok

C11_Witness ==
    \E r \in Reqs :
        /\ Done(r) /\ Created(r)
        /\ Unwrap(store_result[r]).val.fail_valid_to
        /\ ~Unwrap(store_result[r]).val.fail_pem
        /\ ~Unwrap(store_result[r]).val.fail_private_key
        /\ response[r].status = 500

\* The kind of outcome of a finished request, read off its inputs and the
\* store's answer in the order of the error taxonomy.
OutcomeKind(r) ==
    IF ~BothCaptured(params[r]) THEN "BadParam"
    ELSE IF ~body_read[r] THEN "Transport"
    ELSE IF ~IsCertRequest(r) THEN "BadBody"
    ELSE IF IsBlank(body[r].expiration) THEN "EmptyArgument"
    ELSE IF ~HasTimestamp(r) THEN "InvalidTimestamp"
    ELSE IF RawDuration(r) < 0 THEN "OutOfRange"
    ELSE IF IsBlank(body[r].commonName) THEN "EmptyArgument"
    ELSE IF StoreFailed(r) THEN "StoreError"
    ELSE IF Created(r) /\ ~Readable(Unwrap(store_result[r]).val) THEN "IoError"
    ELSE IF Created(r) THEN "Created"
    ELSE "Unknown"

\* C12: the status of a response is fixed by the kind of outcome: 400 exactly
\* for BadParam and BadBody; 500 for EmptyArgument, InvalidTimestamp,
\* OutOfRange, StoreError and IoError; 201 exactly when the store returned a
\* certificate that was read; and no other status.
C12_StatusByKind ==
    \A r \in Reqs :
        Done(r) =>
            /\ OutcomeKind(r) # "Unknown"
            /\ response[r].status \in {201, 400, 500}
            /\ response[r].status = 400 <=> OutcomeKind(r) \in {"BadParam", "BadBody"}
            /\ OutcomeKind(r) \in {"EmptyArgument", "InvalidTimestamp", "OutOfRange",
                                   "StoreError", "IoError"} => response[r].status = 500
            /\ response[r].status = 201 <=> OutcomeKind(r) = "Created"

C12_Witness ==
    \E r \in Reqs :
        /\ Done(r)
        /\ OutcomeKind(r) = "InvalidTimestamp"
        /\ response[r].status = 500

\* C14: a request whose `name` or `genid` capture is present but empty is
\* answered 400 "Bad parameter" at once; its body is never read and the store
\* is never invoked.
C14_EmptyCaptureIsBadParam ==
    \A r \in Reqs :
        Handled(r) /\ BothCaptured(params[r])
                   /\ (params[r].name = <<"">> \/ params[r].genid = <<"">>) =>
            /\ Done(r)
            /\ response[r].status = 400
            /\ response[r].message = BadParamMsg
            /\ ~body_read[r]
            /\ ~StoreInvoked(r)

\* C15: every call of the store carries, as its key and inside its
\* properties, the module id followed by the generation id followed by
\* "server", the identifiers taken as they are; requests with the same
\* identifiers address the same alias.
C15_AliasIsConcatenation ==
    /\ \A r \in Reqs : \A i \in 1..Len(store_calls[r]) :
          LET expected == Unwrap(params[r].name) \o Unwrap(params[r].genid) \o "server" IN
          /\ store_calls[r][i].alias = expected
          /\ store_calls[r][i].props.alias = expected
          /\ params[r].name = <<"a">> /\ params[r].genid = <<"b">> => expected = "abserver"
    /\ \A r1, r2 \in Reqs :
          StoreInvoked(r1) /\ StoreInvoked(r2) /\ params[r1] = params[r2] =>
              store_calls[r1][1].alias = store_calls[r2][1].alias

C15_Witness ==
    \E r \in Reqs :
        /\ StoreInvoked(r)
        /\ params[r].name = <<"a">>
        /\ params[r].genid = <<"b">>
        /\ store_calls[r][1].alias = "abserver"
        /\ store_calls[r][1].props.alias = "abserver"

\* A finished request holds a response with a status, and with a message when
\* it is an error; an unfinished one holds none.
OneResponse(r) ==
    /\ pc[r] \in {"idle", "concat2", "done"}
    /\ Done(r) =>
          /\ response[r].status \in {201, 400, 500}
          /\ response[r].status # 201 => response[r].message # ""
    /\ ~Done(r) => response[r] = NoResponse

\* C13: every request ends in exactly one response: the future never
\* resolves to an error, every failure, a transport failure of the body
\* included, becomes a response with a message, the response of a finished
\* request never changes, and a request whose body the transport delivers or
\* fails is eventually answered.
C13_ExactlyOneResponse ==
    /\ [](\A r \in Reqs : OneResponse(r))
    /\ [][\A r \in Reqs : Done(r) => pc'[r] = "done" /\ response'[r] = response[r]]_vars
    /\ \A r \in Serial : (pc[r] = "concat2") ~> Done(r)

C13_Witness ==
    \E r \in Reqs :
        /\ Done(r)
        /\ BothCaptured(params[r])
        /\ ~body_read[r]
        /\ response[r].status = 500
        /\ response[r].message = HyperMsg


\* ------------------------------------------------ properties of the log
Completed(c) == lpc[c] = "done"
Responded(c) == Completed(c) /\ inner_result[c].tag = "Ready"
Errored(c) == Completed(c) /\ inner_result[c].tag = "Err"

\* The lines of call c, oldest first, and how many they are.
LinesOf(c) == SelectSeq(log, LAMBDA e : e.call = c)
LineCount(c) == Cardinality({i \in DOMAIN log : log[i].call = c})

\* C16: LoggingService is transparent: after every poll the decorated future
\* has returned exactly what the wrapped future returned, the same response
\* (status, headers, body) or the same error; a response never becomes an
\* error and no failure is added.
C16_Transparent ==
    \A c \in Calls :
        /\ resolved[c] = inner_result[c]
        /\ resolved[c].tag = "Err" => inner_result[c].tag = "Err"
C16_Witness ==
    \E c \in Calls :
        /\ Responded(c)
        /\ inner_result[c].response.content_length = OpaqueHeader
        /\ inner_result[c].response.status = 404
        /\ resolved[c].tag = "Ready"
        /\ LineCount(c) > 0

\* C17: a call whose wrapped handler resolves with a response gets exactly
\* one line from each decorator, written in the poll in which the wrapped
\* result becomes ready: none at call time and none in a poll that finds the
\* wrapped result pending, however often the future is polled.
C17_OneLineAtReadyPoll ==
    /\ [](\A c \in Calls :
             LineCount(c) = IF Responded(c) THEN Len(captured[c]) ELSE 0)
    /\ [][\A c \in Calls :
             LineCount(c)' # LineCount(c)
                => /\ lpc[c] = "pending"
                   /\ inner_result'[c].tag = "Ready"
                   /\ lpc'[c] = "done"]_vars
C17_Witness ==
    \E c \in Calls :
        /\ Responded(c)
        /\ polls[c] = MaxPolls + 1
        /\ Len(captured[c]) = 1
        /\ LineCount(c) = 1

\* C18: one line is written for every call handled to completion, also when
\* the wrapped handler's result is an error.
C18_OneLinePerCompletedCall ==
    \A c \in Calls : Completed(c) => LineCount(c) = Len(captured[c])

\* C19: in a line the user agent is the text of the request's user-agent
\* header, the pid is the attached Pid and the body length is the text of the
\* response's content-length header; each is "-" exactly when its source is
\* absent or unreadable.
C19_DashFallbacks ==
    \A i \in DOMAIN log :
        LET line == log[i].line
            req == lreq[log[i].call]
            resp == inner_result[log[i].call].response
            ua == req.user_agent.present /\ req.user_agent.readable
            cl == resp.content_length.present /\ resp.content_length.readable
        IN  /\ line.user_agent = IF ua THEN req.user_agent.text ELSE "-"
            /\ line.user_agent = "-" <=> ~ua
            /\ line.pid = IF req.pid = None THEN "-" ELSE ToString(req.pid[1])
            /\ line.pid = "-" <=> req.pid = None
            /\ line.body_length = IF cl THEN resp.content_length.text ELSE "-"
            /\ line.body_length = "-" <=> ~cl
C19_Witness ==
    \E i \in DOMAIN log :
        /\ lreq[log[i].call].user_agent = OpaqueHeader
        /\ lreq[log[i].call].pid = None
        /\ inner_result[log[i].call].response.content_length = TextHeader("11")
        /\ log[i].line.user_agent = "-"
        /\ log[i].line.pid = "-"
        /\ log[i].line.body_length = "11"

\* C20: with a LoggingService around a LoggingService around a handler, the
\* caller gets the handler's response unchanged and each decorator writes
\* exactly one line with its own label, the inner decorator first.
C20_StackingSafe ==
    \A c \in Calls :
        Responded(c) /\ Len(captured[c]) = 2
            => /\ resolved[c] = inner_result[c]
               /\ Len(LinesOf(c)) = 2
               /\ LinesOf(c)[1].line.label = stack[2]
               /\ LinesOf(c)[2].line.label = stack[1]
C20_Witness ==
    \E c \in Calls :
        /\ Responded(c)
        /\ stack = <<"mgmt", "work">>
        /\ Len(LinesOf(c)) = 2
        /\ LinesOf(c)[1].line.label = "work"
        /\ LinesOf(c)[2].line.label = "mgmt"


\* ------------------------------------------- stage order, zero duration
\* The stages that ran are the first ones of the pipeline, in its order, and
\* only the last of them can have failed.
RanInOrder(r) ==
    /\ Len(stages[r]) <= Len(PipelineOrder)
    /\ \A i \in 1..Len(stages[r]) :
          /\ stages[r][i].stage = PipelineOrder[i]
          /\ i < Len(stages[r]) => stages[r][i].ok
StageRan(r, name) == \E i \in 1..Len(stages[r]) : stages[r][i].stage = name

\* C21: the stages run in the order ParseBody, ValidateExpiration, range
\* check, ValidateCommonName and the first failure ends the chain, so a
\* request with several defects gets the error of the earliest failing
\* stage: a past expiration with a blank common name gets the out-of-range
\* error, an unparseable expiration with a blank common name gets the
\* invalid-timestamp error, and in neither case is the common name looked at.
C21_EarliestStageError ==
    \A r \in Reqs :
        Done(r) /\ body_read[r] =>
            /\ RanInOrder(r)
            /\ HasTimestamp(r) /\ RawDuration(r) < 0 /\ IsBlank(body[r].commonName) =>
                  /\ response[r].status = 500
                  /\ response[r].message = OutOfRangeMsg(0, max_duration)
                  /\ ~StageRan(r, "ValidateCommonName")
            /\ IsCertRequest(r) /\ ~IsBlank(body[r].expiration) /\ ~HasTimestamp(r)
                  /\ IsBlank(body[r].commonName) =>
                  /\ response[r].status = 500
                  /\ response[r].message = InvalidTimestampMsg
                  /\ ~StageRan(r, "EnsureRange")
                  /\ ~StageRan(r, "ValidateCommonName")
            /\ IsCertRequest(r) /\ IsBlank(body[r].expiration)
                  /\ IsBlank(body[r].commonName) =>
                  /\ response[r].message = EmptyArgumentMsg
                  /\ Len(stages[r]) = 2
C21_Witness ==
    \E r \in Reqs :
        /\ Done(r) /\ HasTimestamp(r)
        /\ RawDuration(r) < 0
        /\ body[r].commonName = <<" ">>
        /\ Len(stages[r]) = 3
        /\ response[r].message = OutOfRangeMsg(0, max_duration)

\* C22: a request whose computed duration is exactly 0 seconds passes the
\* range check: with a valid common name the store is called once with
\* validity_in_secs = 0, and the out-of-range error is given only for a
\* duration below 0.
C22_ZeroDurationAccepted ==
    \A r \in Reqs :
        Done(r) /\ HasTimestamp(r) =>
            /\ RawDuration(r) = 0 /\ ~IsBlank(body[r].commonName) =>
                  /\ Len(store_calls[r]) = 1
                  /\ store_calls[r][1].props.validity_in_secs = 0
                  /\ response[r].message # OutOfRangeMsg(0, max_duration)
            /\ response[r].message = OutOfRangeMsg(0, max_duration) <=> RawDuration(r) < 0
C22_Witness ==
    \E r \in Reqs :
        /\ Done(r) /\ HasTimestamp(r)
        /\ seen_now[r] = 1
        /\ RawDuration(r) = 0
        /\ StoreInvoked(r)
        /\ store_calls[r][1].props.validity_in_secs = 0
        /\ response[r].status = 201


\* ------------------------------------------------- requests in flight
\* What the closure of request r gives on r's own captures and body, the
\* configured maximum, the clock value it read and the answer of the store.
OwnRun(r) ==
    Closure(body[r],
            Unwrap(params[r].name) \o Unwrap(params[r].genid) \o "server",
            max_duration, seen_now[r],
            IF IsSome(store_result[r]) THEN Unwrap(store_result[r]) ELSE AnyOutcome)

\* C23: with several requests in flight on one handler, in every order of
\* arrival of their bodies, the properties passed to the store and the
\* response of a request are those of its own captures and body under the
\* configured maximum (at the clock value its closure read and with the
\* answer the store gave it); a step of one request changes nothing of
\* another, and the maximum never changes.
C23_Isolation ==
    /\ [](\A r \in Reqs :
             Done(r) /\ body_read[r] =>
                /\ store_calls[r] = OwnRun(r).calls
                /\ stages[r] = OwnRun(r).stages
                /\ response[r] = UnwrapOrElse(OwnRun(r))
                /\ \A i \in 1..Len(store_calls[r]) :
                      /\ store_calls[r][i].alias =
                            Unwrap(params[r].name) \o Unwrap(params[r].genid) \o "server"
                      /\ store_calls[r][i].props.common_name = body[r].commonName)
    /\ [][\A r \in Reqs :
             pc'[r] = pc[r] =>
                /\ params'[r] = params[r]
                /\ body'[r] = body[r]
                /\ stages'[r] = stages[r]
                /\ store_calls'[r] = store_calls[r]
                /\ store_result'[r] = store_result[r]
                /\ response'[r] = response[r]]_vars
    /\ [][max_duration' = max_duration]_vars
C23_Witness ==
    /\ \A r \in Reqs : Done(r) /\ StoreInvoked(r)
    /\ params[1] # params[2]
    /\ body[1].commonName # body[2].commonName
    /\ seen_now[2] < seen_now[1]
    /\ store_calls[1][1].alias = "abserver"
    /\ store_calls[2][1].alias = "aserver"
    /\ store_calls[2][1].props.common_name = <<" ", "m">>


\* C25: two requests whose (module id, generation id) pairs differ are given
\* different aliases, so they never address the same slot of the store.
C25_AliasCollisionFree ==
    \A r1, r2 \in Reqs :
        StoreInvoked(r1) /\ StoreInvoked(r2)
            /\ <<params[r1].name, params[r1].genid>> # <<params[r2].name, params[r2].genid>>
            => store_calls[r1][1].alias # store_calls[r2][1].alias


\* ----------------------------------------------------- calls in flight
\* C24: with several decorated calls in flight, resolving in any order, each
\* line carries the request line, user agent and pid of one call's request
\* with the status and content length of the response to that same call,
\* and the label of the instance the call was made on; the instances of
\* new_service have the labels of the service, which never change, and a
\* step of one call changes nothing of another.
C24_FieldsOfOneRequest ==
    /\ [](\A i \in DOMAIN log :
             LET c == log[i].call
                 line == log[i].line
                 req == lreq[c]
                 resp == inner_result[c].response
                 ua == req.user_agent.present /\ req.user_agent.readable
                 cl == resp.content_length.present /\ resp.content_length.readable
             IN  /\ Responded(c)
                 /\ instance[c] \in DOMAIN services
                 /\ \E l \in 1..Len(services[instance[c]]) :
                       line.label = services[instance[c]][l]
                 /\ line.request = RequestLine(req)
                 /\ line.user_agent = IF ua THEN req.user_agent.text ELSE "-"
                 /\ line.pid = IF req.pid = None THEN "-" ELSE ToString(req.pid[1])
                 /\ line.status = resp.status
                 /\ line.body_length = IF cl THEN resp.content_length.text ELSE "-")
    /\ [](\A k \in DOMAIN services : services[k] = stack)
    /\ [][/\ \A k \in DOMAIN services : services'[k] = services[k]
          /\ \A c \in Calls :
                polls'[c] = polls[c] /\ lpc'[c] = lpc[c] =>
                   /\ lreq'[c] = lreq[c]
                   /\ captured'[c] = captured[c]
                   /\ resolved'[c] = resolved[c]
                   /\ LineCount(c)' = LineCount(c)]_vars
C24_Witness ==
    /\ \A c \in Calls : Responded(c)
    /\ lreq[1] # lreq[2]
    /\ inner_result[1].response.status # inner_result[2].response.status
    /\ instance[1] # instance[2]
    /\ Len(log) >= 2
    /\ log[1].call = 2
    /\ log[1].line.pid # log[Len(log)].line.pid

====
